---- MODULE Spec2Model ----
(***************************************************************************)
(* A model of the Python backend of quicktype                              *)
(* (src/quicktype-core/language/Python.ts): the emission pass of           *)
(* PythonRenderer / JSONPythonRenderer over a type graph, and the run-time *)
(* behaviour of the support combinators the pass emits.                    *)
(*                                                                         *)
(* A type is a record [kind, name, sub]: kind is the IR kind ("integer",   *)
(* "array", "class", "date-time", ...), name the canonical name of a class *)
(* or enum ("" otherwise), sub the children that are expanded inline (the  *)
(* items of an array, the values of a map, the members of a union in       *)
(* insertion order).  A class or enum is referred to by name; its          *)
(* properties are handed over by the framework when it is declared.        *)
(***************************************************************************)
EXTENDS Naturals, Sequences, FiniteSets, TLC

\* ------------------------------------------------------------------ bounds

\* The largest number of properties in the whole type graph.
MaxProps == 2

\* ------------------------------------------------------------- the type IR

Range(s) == {s[i] : i \in DOMAIN s}

\* Insertion into an insertion-ordered set (a JavaScript Set).
SetAdd(s, x) == IF x \in Range(s) THEN s ELSE Append(s, x)

Prim(k) == [kind |-> k, name |-> "", sub |-> <<>>]
ArrayOf(t) == [kind |-> "array", name |-> "", sub |-> <<t>>]
MapOf(t) == [kind |-> "map", name |-> "", sub |-> <<t>>]
ClassRef(n) == [kind |-> "class", name |-> n, sub |-> <<>>]
EnumRef(n) == [kind |-> "enum", name |-> n, sub |-> <<>>]
UnionOf(ms) == [kind |-> "union", name |-> "", sub |-> ms]

\* nullableFromUnion's answer for a union that is not {null, T}.
NoType == [kind |-> "", name |-> "", sub |-> <<>>]

ClassNames == {"A", "B"}
EnumNames == {"E"}
TypeNames == ClassNames \cup EnumNames

\* The cases of the enum of the graph, in the enum's own order.
EnumCases == <<"x", "y">>

TransformedKinds == {"date", "time", "date-time", "integer-string"}

\* The kinds in the order sortedMembers sorts them (by kind, as text), and
\* the canonical names in their order.
KindOrder ==
    <<"any", "array", "bool", "class", "date", "date-time", "double", "enum",
      "integer", "integer-string", "map", "null", "string", "time", "union">>
NameOrder == <<"", "A", "B", "E">>

IndexOf(s, x) == CHOOSE i \in DOMAIN s : s[i] = x

MemberBefore(a, b) ==
    \/ IndexOf(KindOrder, a.kind) < IndexOf(KindOrder, b.kind)
    \/ /\ a.kind = b.kind
       /\ IndexOf(NameOrder, a.name) < IndexOf(NameOrder, b.name)

\* UnionType.sortedMembers: the members in an order that does not depend on
\* the order of insertion.
sortedMembers(u) == SortSeq(u.sub, MemberBefore)

\* UnionType.members: the members in insertion order.
members(u) == u.sub

\* nullableFromUnion: T for a union of exactly {null, T}, otherwise nothing.
nullableFromUnion(u) ==
    LET nonNulls == SelectSeq(u.sub, LAMBDA m : m.kind # "null")
    IN  IF Len(nonNulls) = 1 /\ Len(u.sub) = 2 THEN nonNulls[1] ELSE NoType

\* followTargetType: a type that carries no transformation is its own target.
followTargetType(t) == t

nameForNamedType(t) == t.name

\* ------------------------------------------------------------ diagnostics

NoPanic == [msg |-> "", kind |-> ""]
panic(m, k) == [msg |-> m, kind |-> k]

\* ------------------------------------------------------ the type renderer

\* withImport that registers nothing.
withImport_unregistered(imps, module, name) == imps

\* withImport: the registry with module.name registered.  The registry is a
\* Map from module to Set of names; both keep insertion order.
withImport(imps, module, name) ==
    IF \E i \in DOMAIN imps : imps[i].module = module
    THEN [i \in DOMAIN imps |->
            IF imps[i].module = module
            THEN [imps[i] EXCEPT !.names = SetAdd(@, name)]
            ELSE imps[i]]
    ELSE Append(imps, [module |-> module, names |-> <<name>>])

withTyping(imps, name) == withImport(imps, "typing", name)

\* namedType without the forward-reference quoting.
namedType_unquoted(t, declared) == <<nameForNamedType(t)>>

\* namedType: the reference to a class or enum, quoted unless declared.
namedType(t, declared) ==
    IF nameForNamedType(t) \in declared
    THEN <<nameForNamedType(t)>>
    ELSE <<"'", nameForNamedType(t), "'">>

Rendered(src, imps) == [src |-> src, imports |-> imps, err |-> NoPanic]
RenderPanic(imps, m, k) == [src |-> <<>>, imports |-> imps, err |-> panic(m, k)]

\* arrayIntercalate(", ", parts), flattened.
RECURSIVE Intercalate(_)
Intercalate(parts) ==
    IF parts = <<>> THEN <<>>
    ELSE IF Len(parts) = 1 THEN parts[1]
    ELSE parts[1] \o <<", ">> \o Intercalate(Tail(parts))

RECURSIVE pythonType(_, _, _)
RECURSIVE pythonTypes(_, _, _)

\* ms.map(m => this.pythonType(m)): the members rendered left to right; a
\* panic ends the rendering.
pythonTypes(ms, imps, declared) ==
    IF ms = <<>> THEN [srcs |-> <<>>, imports |-> imps, err |-> NoPanic]
    ELSE LET r == pythonType(ms[1], imps, declared)
         IN  IF r.err # NoPanic
             THEN [srcs |-> <<>>, imports |-> r.imports, err |-> r.err]
             ELSE LET rest == pythonTypes(Tail(ms), r.imports, declared)
                  IN  [srcs |-> <<r.src>> \o rest.srcs,
                       imports |-> rest.imports, err |-> rest.err]

\* The members of a general union in the order pythonType renders them.
pythonUnionMembers(u) == sortedMembers(u)

\* pythonType: the annotation of t as a sequence of tokens, the registry
\* after the rendering, and the panic if there was one.
pythonType(t, imps, declared) ==
    LET actualType == followTargetType(t)
        k == actualType.kind
    IN  CASE k = "any" -> Rendered(<<"Any">>, withTyping(imps, "Any"))
          [] k = "null" -> Rendered(<<"None">>, imps)
          [] k = "bool" -> Rendered(<<"bool">>, imps)
          [] k = "integer" -> Rendered(<<"int">>, imps)
          [] k = "double" -> Rendered(<<"float">>, imps)
          [] k = "string" -> Rendered(<<"str">>, imps)
          [] k = "array" ->
                LET r == pythonType(actualType.sub[1], withTyping(imps, "List"), declared)
                IN  IF r.err # NoPanic THEN r
                    ELSE Rendered(<<"List", "[">> \o r.src \o <<"]">>, r.imports)
          [] k = "class" -> Rendered(namedType(actualType, declared), imps)
          [] k = "map" ->
                LET r == pythonType(actualType.sub[1], withTyping(imps, "Dict"), declared)
                IN  IF r.err # NoPanic THEN r
                    ELSE Rendered(<<"Dict", "[str, ">> \o r.src \o <<"]">>, r.imports)
          [] k = "enum" -> Rendered(namedType(actualType, declared), imps)
          [] k = "union" ->
                LET maybeNullable == nullableFromUnion(actualType)
                IN  IF maybeNullable # NoType
                    THEN LET r == pythonType(maybeNullable,
                                             withTyping(imps, "Optional"), declared)
                         IN  IF r.err # NoPanic THEN r
                             ELSE Rendered(<<"Optional", "[">> \o r.src \o <<"]">>,
                                           r.imports)
                    ELSE LET rs == pythonTypes(pythonUnionMembers(actualType),
                                               imps, declared)
                         IN  IF rs.err # NoPanic
                             THEN [src |-> <<>>, imports |-> rs.imports, err |-> rs.err]
                             ELSE Rendered(<<"Union", "[">> \o Intercalate(rs.srcs)
                                               \o <<"]">>,
                                           withTyping(rs.imports, "Union"))
          [] k \in TransformedKinds ->
                IF k = "date-time"
                THEN Rendered(<<"datetime">>, withImport(imps, "datetime", "datetime"))
                ELSE RenderPanic(imps, "Transformed type not supported", k)

\* declarationLine: the first line of the declaration of t.
declarationLine(t, imps) ==
    CASE t.kind = "class" ->
            Rendered(<<"class ", nameForNamedType(t), ":">>, imps)
      [] t.kind = "enum" ->
            Rendered(<<"class ", nameForNamedType(t), "(", "Enum", "):">>,
                     withImport(imps, "enum", "Enum"))
      [] OTHER -> RenderPanic(imps, "Can't declare type", t.kind)

\* ------------------------------------------------ the deserializer synthesizer

\* from that does not record the combinator.
from_unrecorded(used, df) == used

\* from: the used combinators with df added.  The reference it returns is the
\* pair of tokens "from_", df.
from(used, df) == SetAdd(used, df)

fromRef(df) == <<"from_", df>>

singleWord(src, used) ==
    [source |-> src, needsParens |-> FALSE, used |-> used, err |-> NoPanic]
multiWord(src, used) ==
    [source |-> src, needsParens |-> TRUE, used |-> used, err |-> NoPanic]
wordPanic(used, m, k) ==
    [source |-> <<>>, needsParens |-> FALSE, used |-> used, err |-> panic(m, k)]

parenIfNeeded(w) ==
    IF w.needsParens THEN <<"(">> \o w.source \o <<")">> ELSE w.source

RECURSIVE deserializerFn(_, _)
RECURSIVE deserializerFns(_, _)

\* ms.map(m => this.deserializerFn(m).source), left to right.
deserializerFns(ms, used) ==
    IF ms = <<>> THEN [srcs |-> <<>>, used |-> used, err |-> NoPanic]
    ELSE LET r == deserializerFn(ms[1], used)
         IN  IF r.err # NoPanic
             THEN [srcs |-> <<>>, used |-> r.used, err |-> r.err]
             ELSE LET rest == deserializerFns(Tail(ms), r.used)
                  IN  [srcs |-> <<r.source>> \o rest.srcs,
                       used |-> rest.used, err |-> rest.err]

\* The members of a union in the order deserializerFn lists their
\* deserializers.
deserializerUnionMembers(u) == members(u)

\* deserializerFn: the deserializer of t as a sequence of tokens, whether it
\* needs parentheses, the used combinators after it, and the panic if any.
deserializerFn(t, used) ==
    LET k == t.kind
    IN  CASE k = "any" -> multiWord(<<"lambda", " ", "x:", " ", "x">>, used)
          [] k = "null" -> singleWord(fromRef("none"), from(used, "none"))
          [] k = "bool" -> singleWord(fromRef("bool"), from(used, "bool"))
          [] k = "integer" -> singleWord(fromRef("int"), from(used, "int"))
          [] k = "double" -> singleWord(fromRef("float"), from(used, "float"))
          [] k = "string" -> singleWord(fromRef("str"), from(used, "str"))
          [] k = "array" ->
                LET r == deserializerFn(t.sub[1], from(used, "list"))
                IN  IF r.err # NoPanic THEN r
                    ELSE multiWord(<<"lambda x: ">> \o fromRef("list") \o <<"(">>
                                       \o parenIfNeeded(r) \o <<", x)">>,
                                   r.used)
          [] k = "class" -> singleWord(<<nameForNamedType(t)>>, used)
          [] k = "map" ->
                LET r == deserializerFn(t.sub[1], from(used, "dict"))
                IN  IF r.err # NoPanic THEN r
                    ELSE multiWord(<<"lambda x: ">> \o fromRef("dict") \o <<"(">>
                                       \o parenIfNeeded(r) \o <<", x)">>,
                                   r.used)
          [] k = "enum" -> singleWord(<<nameForNamedType(t)>>, used)
          [] k = "union" ->
                LET ds == deserializerFns(deserializerUnionMembers(t), used)
                IN  IF ds.err # NoPanic THEN wordPanic(ds.used, ds.err.msg, ds.err.kind)
                    ELSE multiWord(<<"lambda x: ">> \o fromRef("union") \o <<"([">>
                                       \o Intercalate(ds.srcs) \o <<"], x)">>,
                                   from(ds.used, "union"))
          [] k \in TransformedKinds ->
                IF k = "date-time"
                THEN singleWord(fromRef("date-time"), from(used, "date-time"))
                ELSE wordPanic(used, "Transformed type not supported", k)

\* deserializer: the deserializer of t applied to value.
deserializer(value, t, used) ==
    LET w == deserializerFn(t, used)
    IN  [src |-> parenIfNeeded(w) \o <<"(">> \o value \o <<")">>,
         used |-> w.used, err |-> w.err]

\* ---------------------------------------------------- the emitted support

\* deserializerFunctionCodes: the name each combinator's code defines.
deserializerFunctionCodes(df) ==
    CASE df = "none" -> "from_none"
      [] df = "bool" -> "from_bool"
      [] df = "int" -> "from_int"
      [] df = "float" -> "from_float"
      [] df = "str" -> "from_str"
      [] df = "list" -> "from_list"
      [] df = "dict" -> "from_dict"
      [] df = "union" -> "from_union"
      [] df = "date-time" -> "from_datetime"

\* ------------------------------------------------------- the input graphs

Perms(S) == {f \in [1..Cardinality(S) -> S] : \A i, j \in DOMAIN f : f[i] = f[j] => i = j}

\* The member sets of the unions of the graphs; a union holds its members in
\* any insertion order.
UnionMemberSets ==
    {{Prim("null"), Prim("integer")}, {Prim("integer"), Prim("string")}}

Unions == {UnionOf(ms) : ms \in UNION {Perms(S) : S \in UnionMemberSets}}

\* The types a property can have.
PropTypes ==
    {Prim("any"), Prim("string"), Prim("date-time"), Prim("date")}
    \cup {ClassRef(n) : n \in ClassNames} \cup {EnumRef(n) : n \in EnumNames}
    \cup {ArrayOf(Prim("date-time")), MapOf(ClassRef("A"))}
    \cup Unions

\* The declarations the framework can hand over besides the definitions of
\* the classes and enums.
ExtraDecls ==
    {[kind |-> "forward", type |-> ClassRef("A")],
     [kind |-> "define", type |-> UnionOf(<<Prim("integer"), Prim("string")>>)],
     [kind |-> "define", type |-> ArrayOf(Prim("string"))]}

\* The property lists of at most n properties: name, and type.
PropLists(n) ==
    UNION {{[i \in 1..k |-> [name |-> "p" \o ToString(i), type |-> ts[i]]] :
                ts \in [1..k -> PropTypes]} : k \in 0..n}

\* The classes and enums a type refers to.
RECURSIVE Refs(_)
Refs(t) ==
    IF t.kind \in {"class", "enum"} THEN {t.name}
    ELSE UNION {Refs(t.sub[i]) : i \in DOMAIN t.sub}

\* ------------------------------------------------- the declaration emitter

Line(k, src) == [kind |-> k, src |-> src]

\* emitClass, the callbacks of forEachClassProperty from property i on: one
\* annotated member for each property, until a rendering panics.
RECURSIVE classProperties(_, _, _, _)
classProperties(props, i, imps, declared) ==
    IF i > Len(props) THEN [lines |-> <<>>, imports |-> imps, err |-> NoPanic]
    ELSE LET r == pythonType(props[i].type, imps, declared)
         IN  IF r.err # NoPanic
             THEN [lines |-> <<>>, imports |-> r.imports, err |-> r.err]
             ELSE LET rest == classProperties(props, i + 1, r.imports, declared)
                  IN  [lines |-> <<Line("property", <<props[i].name, ": ">> \o r.src)>>
                                     \o rest.lines,
                       imports |-> rest.imports, err |-> rest.err]

\* The lines of __init__ that assign the properties, from property i on.
RECURSIVE initAssignments(_, _, _)
initAssignments(props, i, used) ==
    IF i > Len(props) THEN [lines |-> <<>>, used |-> used, err |-> NoPanic]
    ELSE LET property == <<"obj[\"", props[i].name, "\"]">>
             d == deserializer(property, props[i].type, used)
         IN  IF d.err # NoPanic
             THEN [lines |-> <<>>, used |-> d.used, err |-> d.err]
             ELSE LET rest == initAssignments(props, i + 1, d.used)
                  IN  [lines |-> <<Line("assign", <<"self.", props[i].name, " = ">> \o d.src)>>
                                     \o rest.lines,
                       used |-> rest.used, err |-> rest.err]

\* JSONPythonRenderer.emitClassMembers: the constructor of the class.
emitClassMembers(props, used) ==
    LET a == initAssignments(props, 1, used)
    IN  [lines |-> <<Line("def", <<"def __init__(self, obj):">>),
                     Line("assert", <<"assert isinstance(obj, dict)">>)>> \o a.lines,
         used |-> a.used, err |-> a.err]

\* The emitter emitClass hands to declareType: the body of the class.
emitClassBody(props, imps, declared, used) ==
    IF Len(props) = 0
    THEN [lines |-> <<Line("pass", <<"pass">>)>>, imports |-> imps, used |-> used,
          err |-> NoPanic]
    ELSE LET ps == classProperties(props, 1, imps, declared)
         IN  IF ps.err # NoPanic
             THEN [lines |-> ps.lines, imports |-> ps.imports, used |-> used,
                   err |-> ps.err]
             ELSE LET m == emitClassMembers(props, used)
                  IN  [lines |-> ps.lines \o m.lines, imports |-> ps.imports,
                       used |-> m.used, err |-> m.err]

\* The emitter emitEnum hands to declareType: one line for each case.
emitEnumBody(cases, imps, used) ==
    [lines |-> [i \in DOMAIN cases |-> Line("case", <<cases[i], " = \"", cases[i], "\"">>)],
     imports |-> imps, used |-> used, err |-> NoPanic]

\* The types a body sees as declared while the body of t is emitted.
declaredInBody(declared, t) == declared

\* The declared types once the emitter of t has returned.
declaredAfter(declared, t) == declared \cup {nameForNamedType(t)}

\* emitDeclaration that declares a union like any unsupported type.
emitDeclarationBranch_unionPanics(decl) ==
    IF decl.kind = "forward" THEN "nothing"
    ELSE IF decl.type.kind = "class" THEN "emitClass"
    ELSE IF decl.type.kind = "enum" THEN "emitEnum"
    ELSE "panic"

\* emitDeclaration that emits a forward declaration like a definition.
emitDeclarationBranch_forwardDefines(decl) ==
    IF decl.type.kind = "class" THEN "emitClass"
    ELSE IF decl.type.kind = "enum" THEN "emitEnum"
    ELSE IF decl.type.kind = "union" THEN "nothing"
    ELSE "panic"

\* emitDeclaration: what it does with a declaration.
emitDeclarationBranch(decl) ==
    IF decl.kind = "forward" THEN "nothing"
    ELSE IF decl.type.kind = "class" THEN "emitClass"
    ELSE IF decl.type.kind = "enum" THEN "emitEnum"
    ELSE IF decl.type.kind = "union" THEN "nothing"
    ELSE "panic"

\* The support code of the combinators in used, in the order emitSupportCode
\* iterates them.
emitSupportCode(used) ==
    [i \in DOMAIN used |-> [df |-> used[i], def |-> deserializerFunctionCodes(used[i])]]

Part(p, item, src) == [part |-> p, item |-> item, src |-> src]

\* emitGatheredSource(declarationLines): the lines of the blocks.
RECURSIVE blockParts(_)
blockParts(blocks) ==
    IF blocks = <<>> THEN <<>>
    ELSE [i \in DOMAIN blocks[1].lines |->
             Part("declaration", blocks[1].name, blocks[1].lines[i].src)]
         \o blockParts(Tail(blocks))

\* emitImports: one line for each module, in the order of the registry.
emitImports(imps) ==
    [i \in DOMAIN imps |->
        Part("import", imps[i].module,
             <<"from ", imps[i].module, " import ">>
                \o Intercalate([j \in DOMAIN imps[i].names |-> <<imps[i].names[j]>>]))]

emitDefaultLeadingComments ==
    <<Part("comment", "", <<"Only Python >=3.6 right now, and no (de)serializers yet.">>),
      Part("comment", "", <<"More features coming soon!">>)>>

\* The source emitSourceStructure emits: the leading comments, the imports,
\* the support code, the declarations.
sourceStructure(imps, support, blocks) ==
    emitDefaultLeadingComments
    \o emitImports(imps)
    \o [i \in DOMAIN support |-> Part("support", support[i].df, <<"def ", support[i].def>>)]
    \o blockParts(blocks)

\* ------------------------------------------- the emitted code at run time

\* A JSON value, as Python holds it: its type, its text, and for a list its
\* elements, for a dict its keys and their values.
Value(ty, text) == [ty |-> ty, text |-> text, keys |-> <<>>, items |-> <<>>]
ListOf(items) == [ty |-> "list", text |-> "", keys |-> <<>>, items |-> items]
DictOf(keys, items) == [ty |-> "dict", text |-> "", keys |-> keys, items |-> items]

None == Value("NoneType", "None")

\* How a call ends: it returns a value or raises an exception.
Returns(v) == [status |-> "returns", value |-> v]
Raises(e) == [status |-> "raises " \o e, value |-> None]
NotCalled == [status |-> "", value |-> None]

\* The text datetime.strptime parses under "%Y-%m-%dT%H:%M:%S.%fZ".
DateTimeTexts == {"2018-01-01T00:00:00.000Z"}

\* The name a reference from(df) reads, and whether the emitted support code
\* defines it.
referenceName(df) == "from_" \o df
IsDefined(df) == referenceName(df) = deserializerFunctionCodes(df)

\* The combinator of a kind that needs one.
combinatorOf(k) ==
    CASE k = "null" -> "none"
      [] k = "bool" -> "bool"
      [] k = "integer" -> "int"
      [] k = "double" -> "float"
      [] k = "string" -> "str"
      [] k = "date-time" -> "date-time"

\* Whether a class has the constructor emitClassMembers emits.
HasConstructor(props) ==
    \E l \in Range(emitClassBody(props, <<>>, {}, <<>>).lines) : l.kind = "def"

RECURSIVE Call(_, _, _)
RECURSIVE MapCall(_, _, _)
RECURSIVE CallUnion(_, _, _, _)
RECURSIVE Construct(_, _, _, _)

\* [f(y) for y in ys]: the first exception ends it.
MapCall(t, ys, g) ==
    IF ys = <<>> THEN Returns(ListOf(<<>>))
    ELSE LET r == Call(t, ys[1], g)
         IN  IF r.status # "returns" THEN r
             ELSE LET rest == MapCall(t, Tail(ys), g)
                  IN  IF rest.status # "returns" THEN rest
                      ELSE Returns(ListOf(<<r.value>> \o rest.value.items))

\* The loop of from_union from candidate i on: the first candidate that
\* returns ends it, an AssertionError passes to the next candidate, any
\* other exception leaves the loop, and after the loop "assert False".
CallUnion(ts, i, v, g) ==
    IF i > Len(ts) THEN Raises("AssertionError")
    ELSE LET r == Call(ts[i], v, g)
         IN  IF r.status = "raises AssertionError" THEN CallUnion(ts, i + 1, v, g)
             ELSE r

\* __init__(self, obj) from property i on.
Construct(props, i, obj, g) ==
    IF i > Len(props) THEN Returns(Value("object", ""))
    ELSE IF props[i].name \notin Range(obj.keys) THEN Raises("KeyError")
    ELSE LET r == Call(props[i].type, obj.items[IndexOf(obj.keys, props[i].name)], g)
         IN  IF r.status # "returns" THEN r ELSE Construct(props, i + 1, obj, g)

\* Whether the expression deserializerFn(t) can be evaluated: a reference to
\* a name that is not defined raises NameError.  A lambda is evaluated
\* without its body.
Evaluates(t) ==
    t.kind \in {"null", "bool", "integer", "double", "string", "date-time"}
        => IsDefined(combinatorOf(t.kind))

\* The call of the deserializer deserializerFn(t) on the value v, in a module
\* whose classes are those of g.
Call(t, v, g) ==
    LET k == t.kind
    IN  CASE k = "any" -> Returns(v)
          [] k \in {"null", "bool", "integer", "double", "string", "date-time"}
                /\ ~IsDefined(combinatorOf(k)) -> Raises("NameError")
          [] k = "null" ->
                IF v.ty = "NoneType" THEN Returns(v) ELSE Raises("AssertionError")
          [] k = "bool" ->
                IF v.ty = "bool" THEN Returns(v) ELSE Raises("AssertionError")
          [] k = "integer" ->
                IF v.ty \in {"int", "bool"} THEN Returns(v) ELSE Raises("AssertionError")
          [] k = "double" ->
                IF v.ty \in {"float", "int", "bool"}
                THEN Returns(Value("float", v.text))
                ELSE Raises("AssertionError")
          [] k = "string" ->
                IF v.ty = "str" THEN Returns(v) ELSE Raises("AssertionError")
          [] k = "array" ->
                IF ~Evaluates(t.sub[1]) THEN Raises("NameError")
                ELSE IF v.ty # "list" THEN Raises("AssertionError")
                ELSE MapCall(t.sub[1], v.items, g)
          [] k = "map" ->
                IF ~Evaluates(t.sub[1]) THEN Raises("NameError")
                ELSE IF v.ty # "dict" THEN Raises("AssertionError")
                ELSE LET r == MapCall(t.sub[1], v.items, g)
                     IN  IF r.status # "returns" THEN r
                         ELSE Returns(DictOf(v.keys, r.value.items))
          [] k = "class" ->
                IF ~HasConstructor(g[t.name]) THEN Raises("TypeError")
                ELSE IF v.ty # "dict" THEN Raises("AssertionError")
                ELSE Construct(g[t.name], 1, v, g)
          [] k = "enum" ->
                IF v.ty = "str" /\ v.text \in Range(EnumCases)
                THEN Returns(Value("enum", v.text))
                ELSE Raises("ValueError")
          [] k = "union" ->
                IF \E i \in DOMAIN t.sub : ~Evaluates(deserializerUnionMembers(t)[i])
                THEN Raises("NameError")
                ELSE CallUnion(deserializerUnionMembers(t), 1, v, g)
          [] k = "date-time" ->
                IF v.ty # "str" THEN Raises("TypeError")
                ELSE IF v.text \in DateTimeTexts THEN Returns(Value("datetime", v.text))
                ELSE Raises("ValueError")

\* The values the deserializers are called on.
Values ==
    {None, Value("bool", "1"), Value("int", "1"), Value("float", "1.5"),
     Value("str", "abc"), Value("str", "x"), Value("str", "2018-01-01T00:00:00.000Z"),
     ListOf(<<>>), ListOf(<<Value("int", "1")>>),
     DictOf(<<>>, <<>>), DictOf(<<"p1">>, <<Value("int", "1")>>)}

\* The unions whose deserializers are called: two members of distinct kinds
\* in either insertion order.
RunMemberPool ==
    {Prim("null"), Prim("integer"), Prim("double"), Prim("string"), Prim("date-time"),
     ClassRef("A"), ClassRef("B"), EnumRef("E"), ArrayOf(Prim("integer"))}

RunUnions ==
    {UnionOf(ms) : ms \in UNION {Perms(S) : S \in {T \in SUBSET RunMemberPool :
                                                     Cardinality(T) = 2}}}

\* The classes of the modules the deserializers are called in.
RunGraph ==
    [n \in ClassNames |->
        IF n = "A" THEN <<[name |-> "p1", type |-> Prim("integer")]>> ELSE <<>>]

\* -------------------------------------------------------------- the state

VARIABLES
    pc,                     \* where the pass is
    received,               \* the declarations handed over so far
    graph,                  \* class name -> its properties, once handed over
    declaredTypes,          \* PythonRenderer.declaredTypes
    imports,                \* PythonRenderer.imports
    deserializerFunctions,  \* JSONPythonRenderer.deserializerFunctions
    declarationLines,       \* the gathered declaration blocks
    supportLines,           \* the gathered support code
    artifact,               \* the emitted source
    diagnostic,             \* the panic that aborted the pass, if any
    fs,                     \* from_union at run time: the types of the candidates
    x,                      \* from_union at run time: the value
    at,                     \* from_union at run time: the candidate tried next
    outcome                 \* from_union at run time: how the call ended

passVars ==
    <<pc, received, declaredTypes, imports, deserializerFunctions,
      declarationLines, supportLines, artifact, diagnostic>>

runVars == <<fs, x, at, outcome>>

vars == <<passVars, graph, runVars>>

Init ==
    /\ pc = "declarations"
    /\ received = {}
    /\ graph = [n \in ClassNames |-> <<>>]
    /\ declaredTypes = {}
    /\ imports = <<>>
    /\ deserializerFunctions = <<>>
    /\ declarationLines = <<>>
    /\ supportLines = <<>>
    /\ artifact = <<>>
    /\ diagnostic = NoPanic
    /\ fs = <<>>
    /\ x = None
    /\ at = 0
    /\ outcome = NotCalled

RECURSIVE SumLen(_, _)
SumLen(f, S) ==
    IF S = {} THEN 0
    ELSE LET n == CHOOSE m \in S : TRUE IN Len(f[n]) + SumLen(f, S \ {n})

TotalProps == SumLen(graph, ClassNames)

IsNamedDefine(d) == d.kind = "define" /\ d.type.kind \in {"class", "enum"}

DefinedNames == {d.type.name : d \in {e \in received : IsNamedDefine(e)}}

\* What forEachDeclaration can hand over next: a declaration it has not handed
\* over yet.
NextDecls ==
    ({[kind |-> "define", type |-> ClassRef(n)] : n \in ClassNames}
        \cup {[kind |-> "define", type |-> EnumRef(n)] : n \in EnumNames}
        \cup ExtraDecls) \ received

\* Every class and enum a property refers to has been defined.
AllDefined ==
    \A n \in ClassNames : \A i \in DOMAIN graph[n] : Refs(graph[n][i].type) \subseteq DefinedNames

\* The emitter emitClass or emitEnum hands to declareType for t, run from the
\* registry imps.
emitter(t, props, imps) ==
    IF t.kind = "class"
    THEN emitClassBody(props, imps, declaredInBody(declaredTypes, t), deserializerFunctions)
    ELSE emitEnumBody(EnumCases, imps, deserializerFunctions)

\* declareType(t, emitter): the declaration line opens the block, the emitter
\* emits the body, and then t is declared.  A panic aborts the pass where it
\* is.  props are the properties of t if t is a class.
declareType(t, props) ==
    \E h \in {declarationLine(t, imports)} : \E b \in {emitter(t, props, h.imports)} :
    LET block(lines) == [name |-> nameForNamedType(t), kind |-> t.kind, lines |-> lines]
    IN  IF h.err # NoPanic
        THEN /\ imports' = h.imports
             /\ diagnostic' = h.err
             /\ pc' = "aborted"
             /\ UNCHANGED <<declaredTypes, deserializerFunctions, declarationLines>>
        ELSE /\ imports' = b.imports
             /\ deserializerFunctions' = b.used
             /\ declarationLines' =
                    Append(declarationLines, block(<<Line("header", h.src)>> \o b.lines))
             /\ IF b.err # NoPanic
                THEN /\ diagnostic' = b.err
                     /\ pc' = "aborted"
                     /\ UNCHANGED declaredTypes
                ELSE /\ declaredTypes' = declaredAfter(declaredTypes, t)
                     /\ UNCHANGED <<pc, diagnostic>>

\* emitDeclaration on a forward declaration or on the definition of a union:
\* nothing is emitted.
emitDeclarationNothing ==
    /\ pc = "declarations"
    /\ \E decl \in NextDecls :
        /\ emitDeclarationBranch(decl) = "nothing"
        /\ received' = received \cup {decl}
    /\ UNCHANGED <<pc, graph, declaredTypes, imports, deserializerFunctions,
                   declarationLines, supportLines, artifact, diagnostic>>
    /\ UNCHANGED runVars

\* emitDeclaration on the definition of a type that is no class, enum or union.
emitDeclarationPanic ==
    /\ pc = "declarations"
    /\ \E decl \in NextDecls :
        /\ emitDeclarationBranch(decl) = "panic"
        /\ received' = received \cup {decl}
        /\ diagnostic' = panic("Cannot declare type", decl.type.kind)
        /\ pc' = "aborted"
    /\ UNCHANGED <<graph, declaredTypes, imports, deserializerFunctions,
                   declarationLines, supportLines, artifact>>
    /\ UNCHANGED runVars

\* emitDeclaration on the definition of a class: emitClass.  The framework
\* hands over the properties of the class.
emitClass ==
    /\ pc = "declarations"
    /\ \E decl \in NextDecls :
        /\ emitDeclarationBranch(decl) = "emitClass"
        /\ received' = received \cup {decl}
        /\ \E props \in PropLists(MaxProps - TotalProps) :
            /\ graph' = IF decl.type.name \in DOMAIN graph
                        THEN [graph EXCEPT ![decl.type.name] = props]
                        ELSE graph
            /\ declareType(decl.type, props)
    /\ UNCHANGED <<supportLines, artifact>>
    /\ UNCHANGED runVars

\* emitDeclaration on the definition of an enum: emitEnum.
emitEnum ==
    /\ pc = "declarations"
    /\ \E decl \in NextDecls :
        /\ emitDeclarationBranch(decl) = "emitEnum"
        /\ received' = received \cup {decl}
        /\ declareType(decl.type, <<>>)
    /\ UNCHANGED <<graph, supportLines, artifact>>
    /\ UNCHANGED runVars

\* emitSourceStructure, once forEachDeclaration has handed over the last
\* declaration: the support code is gathered and the source is put together.
emitSourceStructure ==
    /\ pc = "declarations"
    /\ AllDefined
    /\ supportLines' = emitSupportCode(deserializerFunctions)
    /\ artifact' = sourceStructure(imports, supportLines', declarationLines)
    /\ pc' = "done"
    /\ UNCHANGED <<received, graph, declaredTypes, imports, deserializerFunctions,
                   declarationLines, diagnostic>>
    /\ UNCHANGED runVars

Next ==
    \/ emitDeclarationNothing
    \/ emitDeclarationPanic
    \/ emitClass
    \/ emitEnum
    \/ emitSourceStructure

Spec == Init /\ [][Next]_vars

\* ---------------------------------------------------- from_union at run time

InitRun ==
    /\ pc = "run"
    /\ received = {}
    /\ graph = RunGraph
    /\ declaredTypes = {}
    /\ imports = <<>>
    /\ deserializerFunctions = <<>>
    /\ declarationLines = <<>>
    /\ supportLines = <<>>
    /\ artifact = <<>>
    /\ diagnostic = NoPanic
    /\ \E u \in RunUnions : fs = deserializerUnionMembers(u)
    /\ x \in Values
    /\ at = 0
    /\ outcome = NotCalled

\* The call from_union([...], x): the list of the candidates is evaluated
\* before from_union is entered.
callFromUnion ==
    /\ pc = "run"
    /\ at = 0
    /\ outcome = NotCalled
    /\ IF \E i \in DOMAIN fs : ~Evaluates(fs[i])
       THEN outcome' = Raises("NameError") /\ at' = at
       ELSE at' = 1 /\ outcome' = outcome
    /\ UNCHANGED <<passVars, graph, fs, x>>

\* One turn of the loop of from_union: try: return f(x); except
\* AssertionError: pass.
tryCandidate ==
    /\ pc = "run"
    /\ outcome = NotCalled
    /\ at \in DOMAIN fs
    /\ LET r == Call(fs[at], x, graph)
       IN  IF r.status = "raises AssertionError"
           THEN at' = at + 1 /\ outcome' = outcome
           ELSE at' = at /\ outcome' = r
    /\ UNCHANGED <<passVars, graph, fs, x>>

\* from_union after the loop: assert False.
assertFalse ==
    /\ pc = "run"
    /\ outcome = NotCalled
    /\ at = Len(fs) + 1
    /\ outcome' = Raises("AssertionError")
    /\ UNCHANGED <<passVars, graph, fs, x, at>>

NextRun == callFromUnion \/ tryCandidate \/ assertFalse

SpecRun == InitRun /\ [][NextRun]_vars

\* The pass runs to completion: it is synchronous and single-threaded.
FairSpec == Spec /\ WF_vars(Next)

\* ------------------------------------------------------------- the claims

Done == pc = "done"
Aborted == pc = "aborted"

\* The lines of kind k of block b.
LinesOf(b, k) == SelectSeq(b.lines, LAMBDA l : l.kind = k)

\* Whether the token at position p of src stands between quotes.
Quoted(src, p) == p > 1 /\ p < Len(src) /\ src[p - 1] = "'" /\ src[p + 1] = "'"

\* C3: a reference to a class or enum T in an annotation is unquoted if and
\* only if the declaration of T was complete before the reference was
\* rendered, that is, if and only if the block of T precedes the block that
\* holds the reference; a class's reference to itself is quoted.
C3_QuotedUnlessDeclared ==
    \A i \in DOMAIN declarationLines :
        \A l \in DOMAIN declarationLines[i].lines :
            LET line == declarationLines[i].lines[l]
            IN  line.kind = "property" =>
                    \A p \in DOMAIN line.src :
                        line.src[p] \in TypeNames =>
                            (~Quoted(line.src, p)
                                <=> \E j \in 1..(i - 1) :
                                        declarationLines[j].name = line.src[p])

\* A then B, A with a property of type B and B with a property of type A:
\* A's reference is quoted, B's is not.
C3_Witness ==
    /\ Len(declarationLines) >= 2
    /\ declarationLines[1].name = "A"
    /\ declarationLines[2].name = "B"
    /\ <<"p1", ": ", "'", "B", "'">> \in {l.src : l \in Range(declarationLines[1].lines)}
    /\ <<"p1", ": ", "A">> \in {l.src : l \in Range(declarationLines[2].lines)}
    /\ "B" \in declaredTypes

\* The blocks whose constructor was emitted, and the type of property i of the
\* class of block b.
WithConstructor == {b \in Range(declarationLines) : LinesOf(b, "assign") # <<>>}
PropType(b, i) == graph[b.name][i].type

IsNullable(t) == t.kind = "union" /\ nullableFromUnion(t) # NoType
IsGeneralUnion(t) == t.kind = "union" /\ nullableFromUnion(t) = NoType

\* C1: for every union that is not {null, T}, the members the annotation
\* renders and the members whose deserializers from_union is given are the
\* same sequence, whatever the insertion order of the members.
C1_UnionOrderAligned ==
    \A b \in WithConstructor :
        \A i \in DOMAIN graph[b.name] :
            IsGeneralUnion(PropType(b, i)) =>
                pythonUnionMembers(PropType(b, i)) = deserializerUnionMembers(PropType(b, i))

\* C2: a union of exactly {null, T} is annotated Optional[...] and never
\* Union[...], its deserializer does not refer to the union combinator, and
\* such a union does not put "union" among the used combinators.
C2_NullableTakesOptionalPath ==
    /\ \A b \in WithConstructor :
        \A i \in DOMAIN graph[b.name] :
            IsNullable(PropType(b, i)) =>
                /\ "Optional" \in Range(LinesOf(b, "property")[i].src)
                /\ "Union" \notin Range(LinesOf(b, "property")[i].src)
                /\ "union" \notin Range(LinesOf(b, "assign")[i].src)
    /\ (\A n \in ClassNames : \A i \in DOMAIN graph[n] : ~IsGeneralUnion(graph[n][i].type))
            => "union" \notin Range(deserializerFunctions)

\* The kinds of the types a type is made of.
RECURSIVE Kinds(_)
Kinds(t) == {t.kind} \cup UNION {Kinds(t.sub[i]) : i \in DOMAIN t.sub}

\* The kinds in the properties of the graph.
PropertyKinds ==
    UNION {UNION {Kinds(graph[n][i].type) : i \in DOMAIN graph[n]} : n \in ClassNames}

OnlyPropertyIs(t) ==
    /\ TotalProps = 1
    /\ \E n \in ClassNames : Len(graph[n]) = 1 /\ graph[n][1].type = t

ImportEntries ==
    UNION {{<<imports[i].module, imports[i].names[j]>> : j \in DOMAIN imports[i].names} :
              i \in DOMAIN imports}

EnumDefined == DefinedNames \cap EnumNames # {}

\* C4 as stated: after a pass over a graph whose only property is an array
\* of date-time the registry holds the date-time entry and no other, and
\* after a pass over a graph without optional, union, collection and date
\* types the registry is empty.
C4_Original ==
    Done =>
        /\ OnlyPropertyIs(ArrayOf(Prim("date-time")))
                => ImportEntries = {<<"datetime", "datetime">>}
        /\ PropertyKinds \cap ({"union", "array", "map"} \cup TransformedKinds) = {}
                => imports = <<>>

\* C4, amended: after a pass over a graph whose only property is an array of
\* date-time the registry holds typing.List and datetime.datetime, and
\* enum.Enum if the graph declares an enum, and nothing else; after a pass
\* over a graph without optional, union, collection, date and any types the
\* registry holds enum.Enum if the graph declares an enum, and nothing else.
C4_RegistryAfterPass ==
    LET enumEntry == IF EnumDefined THEN {<<"enum", "Enum">>} ELSE {}
    IN  Done =>
            /\ OnlyPropertyIs(ArrayOf(Prim("date-time")))
                    => ImportEntries =
                           {<<"typing", "List">>, <<"datetime", "datetime">>} \cup enumEntry
            /\ PropertyKinds \cap ({"any", "union", "array", "map"} \cup TransformedKinds) = {}
                    => ImportEntries = enumEntry

C4_Witness ==
    /\ Done
    /\ OnlyPropertyIs(ArrayOf(Prim("date-time")))
    /\ ~EnumDefined
    /\ imports = <<[module |-> "typing", names |-> <<"List">>],
                   [module |-> "datetime", names |-> <<"datetime">>]>>

\* The combinators the deserializers of the declarations refer to.
Referenced ==
    UNION {UNION {{l.src[p + 1] : p \in {q \in DOMAIN l.src : l.src[q] = "from_"}} :
                     l \in Range(LinesOf(b, "assign"))} :
              b \in Range(declarationLines)}

PartsAt(p) == {i \in DOMAIN artifact : artifact[i].part = p}

\* C5: the combinators whose code is emitted are exactly the combinators the
\* deserializers of the emitted declarations refer to, each is emitted
\* once, and all of them stand before the first declaration.
C5_SupportIsWhatIsUsed ==
    Done =>
        /\ {artifact[i].item : i \in PartsAt("support")} = Referenced
        /\ \A i, j \in PartsAt("support") : artifact[i].item = artifact[j].item => i = j
        /\ \A i \in PartsAt("support") : \A j \in PartsAt("declaration") : i < j

C5_Witness ==
    /\ Done
    /\ Cardinality(Referenced) >= 3
    /\ Cardinality(PartsAt("support")) >= 3
    /\ PartsAt("declaration") # {}

\* The used combinators after a pass over one class with the properties props.
UsedBy(props) == initAssignments(props, 1, <<>>)

\* C6: two passes with the same set of used combinators emit the support
\* code in the same order: the pass of this behaviour, and a pass over one
\* class with any properties.
C6_SupportOrderFixed ==
    Done =>
        \A props \in PropLists(MaxProps) :
            (UsedBy(props).err = NoPanic
                /\ Range(UsedBy(props).used) = Range(deserializerFunctions))
                => emitSupportCode(UsedBy(props).used) = supportLines

UnsupportedKinds(props) ==
    UNION {Kinds(props[i].type) : i \in DOMAIN props} \cap (TransformedKinds \ {"date-time"})

\* C8 as stated: the definition of a type that is no class and no enum, a
\* union included, aborts the pass with a diagnostic that names its kind, and
\* so does an unsupported transformed-string kind.
C8_Original ==
    /\ \A d \in received :
        (d.kind = "define" /\ d.type.kind \notin {"class", "enum"})
            => (Aborted /\ diagnostic.kind = d.type.kind)
    /\ \A n \in ClassNames :
        UnsupportedKinds(graph[n]) # {}
            => (Aborted /\ diagnostic.kind \in UnsupportedKinds(graph[n]))

\* C8, amended: the definition of a union is skipped, nothing is emitted for
\* it and the pass is not aborted for it; the definition of any other type
\* that is no class and no enum aborts the pass with a diagnostic that names
\* its kind, and so does an unsupported transformed-string kind that reaches
\* pythonType or deserializerFn.
C8_UnionSkippedOthersAbort ==
    /\ \A d \in received :
        (d.kind = "define" /\ d.type.kind \notin {"class", "enum", "union"})
            => (Aborted /\ diagnostic = panic("Cannot declare type", d.type.kind))
    /\ \A d \in received :
        (d.kind = "define" /\ d.type.kind = "union")
            => /\ diagnostic.kind # "union"
               /\ \A b \in Range(declarationLines) : b.kind # "union"
    /\ \A n \in ClassNames :
        UnsupportedKinds(graph[n]) # {}
            => /\ Aborted
               /\ diagnostic.msg = "Transformed type not supported"
               /\ diagnostic.kind \in UnsupportedKinds(graph[n])

C8_Witness ==
    /\ Done
    /\ \E d \in received : d.kind = "define" /\ d.type.kind = "union"
    /\ declarationLines # <<>>

\* C9: the block of every class a deserializer delegates to by name holds the
\* constructor emitClassMembers emits.
C9_DelegatedClassHasConstructor ==
    Done =>
        \A b \in Range(declarationLines) :
            \A l \in Range(LinesOf(b, "assign")) :
                \A p \in DOMAIN l.src :
                    l.src[p] \in ClassNames =>
                        \E c \in Range(declarationLines) :
                            c.name = l.src[p] /\ LinesOf(c, "def") # <<>>

\* Exactly one block for each class and enum whose definition was received.
OneBlockPerDefinition ==
    /\ Len(declarationLines) = Cardinality(DefinedNames)
    /\ \A n \in DefinedNames :
        Cardinality({i \in DOMAIN declarationLines : declarationLines[i].name = n}) = 1
    /\ Cardinality({i \in PartsAt("declaration") : artifact[i].src[1] = "class "})
            = Cardinality(DefinedNames)

\* C10: the pass ends, on cyclic graphs too, and when it is done it has
\* emitted exactly one block for each class and enum received.
C10_PassEndsOneBlockEach ==
    /\ <>(Done \/ Aborted)
    /\ [](Done => OneBlockPerDefinition)

\* A pass that is done over a class with a property of its own type and a
\* second class that refers to the first.
C10_Witness ==
    /\ Done
    /\ \E i \in DOMAIN graph["A"] : graph["A"][i].type = ClassRef("A")
    /\ \E i \in DOMAIN graph["B"] : graph["B"][i].type = ClassRef("A")
    /\ Len(declarationLines) = 2

\* The candidates that, called on x, return.
Succeeding == {i \in DOMAIN fs : Call(fs[i], x, graph).status = "returns"}

\* C7: from_union returns what the first candidate that succeeds returns,
\* and fails only if every candidate fails, however a failing candidate
\* fails.
C7_FirstSuccessOrAllFail ==
    outcome # NotCalled =>
        IF Succeeding = {}
        THEN outcome.status # "returns"
        ELSE outcome = Call(fs[CHOOSE i \in Succeeding : \A j \in Succeeding : i <= j],
                            x, graph)

====
